---- MODULE Spec2Model ----
(***************************************************************************)
(* Multilingual Voice QA: the answer extractor (core/qa_pipeline.py,       *)
(* get_answer) and the front-end session state machine (app.py).           *)
(*                                                                         *)
(* Python values are records tagged with their type.  A string is a slice  *)
(* of a named source text: [type, src, off, len].  Characters of a source  *)
(* text are identified by their position, so two slices are equal exactly  *)
(* when they are the same range of the same text.  Confidence scores are   *)
(* integers in units of 1/MaxScore (MaxScore stands for 1.0).              *)
(***************************************************************************)
EXTENDS Integers, Sequences, FiniteSets, TLC

VARIABLES
    selected_language,  \* sidebar selectbox; decides the loaded model
    pdf_text,           \* module-level pdf_text of app.py / argument of get_answer
    ui_state,           \* st.session_state.ui_state
    question,           \* st.session_state.question / argument of get_answer
    answer_data,        \* st.session_state.answer_data
    stt_calls,          \* number of listen_and_transcribe invocations so far
    transcribed,        \* last value returned by listen_and_transcribe
    pc,                 \* position of the running script inside get_answer
    chunks,             \* get_answer: chunks
    all_candidates,     \* get_answer: all_candidates
    calls,              \* log of the qa_pipeline invocations of this get_answer call
    ret                 \* value returned by get_answer

vars == <<selected_language, pdf_text, ui_state, question, answer_data,
          stt_calls, transcribed, pc, chunks, all_candidates, calls, ret>>

\* everything outside the running get_answer call
outer_vars == <<selected_language, pdf_text, ui_state, question, answer_data,
                stt_calls, transcribed>>

-----------------------------------------------------------------------------
(* Bounds of the model *)

MaxLen == 1300      \* longest document text of the chunking specification
MaxScore == 2       \* scorer scores are 1..MaxScore, MaxScore standing for 1.0
MaxCands == 3       \* candidates the scorer returns in total during one call
MaxListens == 2     \* recordings per session

(* Program constants *)

max_chunk_len == 512
overlap == 100
top_k == 3

-----------------------------------------------------------------------------
(* Python values *)

PyNone == [type |-> "NoneType"]
PyStr(src, off, len) == [type |-> "str", src |-> src, off |-> off, len |-> len]
PyList(len) == [type |-> "list", len |-> len]
Literal(name, len) == PyStr(name, 0, len)
Document(len) == PyStr("pdf", 0, len)

IsStr(v) == v.type = "str"
Truthy(v) == v.type # "NoneType" /\ v.len > 0

Min(a, b) == IF a <= b THEN a ELSE b
Max(a, b) == IF a >= b THEN a ELSE b

\* s[i:j] for 0 <= i <= j
Slice(s, i, j) ==
    LET start == Min(i, s.len)
        stop == Min(j, s.len)
    IN  PyStr(s.src, s.off + start, Max(stop - start, 0))

\* list(range(start, stop, step)) for step > 0
RECURSIVE PyRange(_, _, _)
PyRange(start, stop, step) ==
    IF start >= stop THEN <<>>
    ELSE <<start>> \o PyRange(start + step, stop, step)

-----------------------------------------------------------------------------
(* Configuration and model loading *)

Languages == {"English", "Sanskrit", "Japanese"}

MODEL_CONFIG ==
    [l \in Languages |->
        CASE l = "English" -> "google/flan-t5-base"
          [] l = "Sanskrit" -> "google/muril-base-cased"
          [] l = "Japanese" -> "cl-tohoku/bert-base-japanese-whole-word-masking"]

\* "flan-t5" in model_name, for the configured names
ContainsFlanT5(model_name) == model_name = "google/flan-t5-base"

\* "t5" in name_or_path, for the configured names
ContainsT5(name_or_path) == name_or_path = "google/flan-t5-base"

load_model_components(model_name) ==
    IF ContainsFlanT5(model_name)
    THEN [model |-> model_name, pipeline |-> "None"]
    ELSE [model |-> "None", pipeline |-> model_name]

model_components == load_model_components(MODEL_CONFIG[selected_language])

IsGenerativePath(mc) == mc.model # "None" /\ ContainsT5(mc.model)

-----------------------------------------------------------------------------
(* get_answer: results *)

NA == Literal("N/A", 3)
GeneratedContext == Literal("Answer was generated, not extracted.", 81)

AnswerEmptyDoc == "The document appears to be empty."
AnswerNotFound == "Sorry, I couldn't find a confident answer in the document."
AnswerNoGeneration == "FLAN-T5 could not generate an answer."

Result(answer, score, context) ==
    [answer |-> answer, score |-> score, context |-> context]

EmptyDocResult == Result(AnswerEmptyDoc, 0, NA)

EmptyDocReturnedAgain == EmptyDocResult

NotFoundResult == Result(AnswerNotFound, 0, NA)

-----------------------------------------------------------------------------
(* get_answer: chunking *)

StrideNoOverlap == max_chunk_len
StrideTooLong == max_chunk_len + overlap

Stride == max_chunk_len - overlap

ChunkStarts(text) == PyRange(0, text.len, Stride)

MakeChunksNoTypeCheck(text) ==
    IF Truthy(text)
    THEN LET starts == PyRange(0, text.len, Stride)
         IN  [k \in 1..Len(starts) |->
                 Slice(Document(text.len), starts[k], starts[k] + max_chunk_len)]
    ELSE <<>>

\* chunks, as built by the loop over range(0, len(pdf_text), stride)
MakeChunks(text) ==
    IF Truthy(text) /\ IsStr(text)
    THEN LET starts == ChunkStarts(text)
         IN  [k \in 1..Len(starts) |->
                 Slice(text, starts[k], starts[k] + max_chunk_len)]
    ELSE <<>>

-----------------------------------------------------------------------------
(* The scorer (qa_pipeline): what one invocation may return *)

Answers == {"", "a", "b"}
Scores == 1..MaxScore
ScorerCandidates == [answer : Answers, score : Scores]

ScorerOutputs(room) ==
    UNION {[1..n -> ScorerCandidates] : n \in 0..Min(top_k, room)}

-----------------------------------------------------------------------------
(* get_answer: selection *)

KeepAll(cands) == cands

\* [cand for cand in all_candidates if cand.get('answer')]
ValidCandidates(cands) == SelectSeq(cands, LAMBDA c : c.answer # "")

LastMaxBetter(c, best) == c.score >= best.score

\* max() replaces its current best only by a strictly greater key
Better(c, best) == c.score > best.score

RECURSIVE MaxFrom(_, _, _)
MaxFrom(seq, i, best) ==
    IF i > Len(seq) THEN best
    ELSE MaxFrom(seq, i + 1, IF Better(seq[i], best) THEN seq[i] ELSE best)

\* max(valid_candidates, key=lambda x: x['score']) for a non-empty list
PyMaxByScore(seq) == MaxFrom(seq, 2, seq[1])

SelectResult(cands) ==
    LET valid_candidates == ValidCandidates(cands)
    IN  IF valid_candidates = <<>>
        THEN NotFoundResult
        ELSE LET best_answer == PyMaxByScore(valid_candidates)
             IN  Result(best_answer.answer, best_answer.score, best_answer.context)

-----------------------------------------------------------------------------
(* get_answer: the steps of one call *)

\* Entry: path selection, chunking, the empty-chunks return.
GetAnswerEnter ==
    /\ calls' = <<>>
    /\ all_candidates' = <<>>
    /\ IF IsGenerativePath(model_components)
       THEN /\ pc' = "generating"
            /\ chunks' = <<>>
            /\ ret' = PyNone
       ELSE /\ chunks' = MakeChunks(pdf_text)
            /\ IF chunks' = <<>>
               THEN pc' = "returned" /\ ret' = EmptyDocResult
               ELSE pc' = "scoring" /\ ret' = PyNone

\* Generative path: model.generate and tokenizer.decode return a text.
Generate ==
    /\ pc = "generating"
    /\ \E answer \in {"", "a"} :
          ret' = Result(IF answer # "" THEN answer ELSE AnswerNoGeneration,
                        MaxScore, GeneratedContext)
    /\ pc' = "returned"
    /\ UNCHANGED <<chunks, all_candidates, calls>>
    /\ UNCHANGED outer_vars

\* Generative path: the tokenizer or the model raises; nothing catches it.
GenerateRaise ==
    /\ pc = "generating"
    /\ pc' = "raised"
    /\ UNCHANGED <<chunks, all_candidates, calls, ret>>
    /\ UNCHANGED outer_vars

StaleChunk(k) == chunks[1]

\* the chunk of loop iteration k, passed as context and attached to the results
ChunkAt(k) == chunks[k]

Reraise == "raised"

\* where the except branch goes: continue
AfterScorerFailure == "scoring"

LoopDone == pc = "scoring" /\ Len(calls) = Len(chunks)

\* One iteration whose qa_pipeline call returns `results`.
ScoreChunk ==
    /\ pc = "scoring"
    /\ Len(calls) < Len(chunks)
    /\ LET k == Len(calls) + 1
       IN  \E results \in ScorerOutputs(MaxCands - Len(all_candidates)) :
              /\ calls' = Append(calls, [question |-> question,
                                         context |-> chunks[k],
                                         ok |-> TRUE,
                                         results |-> results])
              /\ all_candidates' = all_candidates \o
                    [j \in 1..Len(results) |->
                        Result(results[j].answer, results[j].score, ChunkAt(k))]
    /\ UNCHANGED <<pc, chunks, ret>>
    /\ UNCHANGED outer_vars

\* One iteration whose qa_pipeline call raises: printed, then continue.
ScoreChunkRaise ==
    /\ pc = "scoring"
    /\ Len(calls) < Len(chunks)
    /\ calls' = Append(calls, [question |-> question,
                               context |-> chunks[Len(calls) + 1],
                               ok |-> FALSE,
                               results |-> <<>>])
    /\ pc' = AfterScorerFailure
    /\ UNCHANGED <<chunks, all_candidates, ret>>
    /\ UNCHANGED outer_vars

\* After the loop: filter, sentinel or max, return.
GetAnswerSelect ==
    /\ LoopDone
    /\ ret' = SelectResult(all_candidates)
    /\ pc' = "returned"
    /\ UNCHANGED <<chunks, all_candidates, calls>>
    /\ UNCHANGED outer_vars

-----------------------------------------------------------------------------
(* get_answer called directly: the arguments are drawn by Init *)

Questions == {"who", "where"}

NonStringDocs == {PyNone, PyList(0), PyList(2)}

NoCall ==
    /\ ui_state = "idle"
    /\ answer_data = PyNone
    /\ stt_calls = 0
    /\ transcribed = PyNone
    /\ pc = "call"
    /\ chunks = <<>>
    /\ all_candidates = <<>>
    /\ calls = <<>>
    /\ ret = PyNone

Call ==
    /\ pc = "call"
    /\ GetAnswerEnter
    /\ UNCHANGED outer_vars

\* Chunking of every document text up to MaxLen.
ChunkDocs == {Document(n) : n \in 0..MaxLen} \cup NonStringDocs

InitChunk ==
    /\ selected_language \in {"Sanskrit", "Japanese"}
    /\ question = "who"
    /\ pdf_text \in ChunkDocs
    /\ NoCall

NextChunk == Call

SpecChunk == InitChunk /\ [][NextChunk]_vars

\* Whole calls on sample documents of one, two and three windows.
SampleLens == {0, 1, 412, 413, 825}
SampleDocs == {Document(n) : n \in SampleLens} \cup NonStringDocs

InitQA ==
    /\ selected_language \in Languages
    /\ question \in Questions
    /\ pdf_text \in SampleDocs
    /\ NoCall

NextQA ==
    \/ Call
    \/ Generate
    \/ GenerateRaise
    \/ ScoreChunk
    \/ ScoreChunkRaise
    \/ GetAnswerSelect

SpecQA == InitQA /\ [][NextQA]_vars

-----------------------------------------------------------------------------
(* core/voice_handler.py: listen_and_transcribe *)

\* What recognize_whisper does with the recorded audio.
WhisperOutcomes ==
    {[kind |-> "text", text |-> t] : t \in {""} \cup Questions}
    \cup {[kind |-> "UnknownValueError", text |-> ""],
          [kind |-> "RequestError", text |-> ""]}

Transcript(text) == [type |-> "str", text |-> text]

\* the value listen_and_transcribe returns
ListenReturn(outcome) ==
    IF outcome.kind = "text" THEN Transcript(outcome.text) ELSE PyNone

\* if transcribed_question:
TruthyTranscript(t) == t.type = "str" /\ t.text # ""

-----------------------------------------------------------------------------
(* app.py: one script run per user event *)

\* what extract_text_from_pdf may give for the selected or uploaded file
AppDocs == {PyNone, Document(0), Document(7), Document(413)}

Init ==
    /\ selected_language = "English"
    /\ pdf_text \in AppDocs
    /\ ui_state = "idle"
    /\ question = ""
    /\ answer_data = PyNone
    /\ stt_calls = 0
    /\ transcribed = PyNone
    /\ pc = "none"
    /\ chunks = <<>>
    /\ all_candidates = <<>>
    /\ calls = <<>>
    /\ ret = PyNone

frame_vars == <<pc, chunks, all_candidates, calls, ret>>

\* The sidebar: another language, another PDF (or none).
SidebarChange ==
    /\ pc = "none"
    /\ \E lang \in Languages, doc \in AppDocs :
          /\ selected_language' = lang
          /\ pdf_text' = doc
    /\ UNCHANGED <<ui_state, question, answer_data, stt_calls, transcribed>>
    /\ UNCHANGED frame_vars

DoneBeforeAnswer == "done"

\* ui_state while process_question is inside get_answer
StateDuringAnswer == ui_state

\* process_question up to the call of get_answer
process_question(question_text) ==
    /\ question' = question_text
    /\ ui_state' = StateDuringAnswer
    /\ GetAnswerEnter

\* "Submit Text Question"
SubmitText ==
    /\ pc = "none"
    /\ Truthy(pdf_text)
    /\ ui_state = "idle"
    /\ \E text_question \in {""} \cup Questions :
          IF text_question # ""
          THEN /\ process_question(text_question)
               /\ UNCHANGED <<selected_language, pdf_text, answer_data,
                              stt_calls, transcribed>>
          ELSE UNCHANGED vars

\* "Start Recording"
StartRecording ==
    /\ pc = "none"
    /\ Truthy(pdf_text)
    /\ ui_state = "idle"
    /\ ui_state' = "recording"
    /\ UNCHANGED <<selected_language, pdf_text, question, answer_data,
                   stt_calls, transcribed>>
    /\ UNCHANGED frame_vars

StayRecording == "recording"

\* ui_state after a transcription that gave no text
AfterNoTranscript == "idle"

\* The recording branch: listen_and_transcribe returns.
Record ==
    /\ pc = "none"
    /\ Truthy(pdf_text)
    /\ ui_state = "recording"
    /\ stt_calls < MaxListens
    /\ stt_calls' = stt_calls + 1
    /\ \E outcome \in WhisperOutcomes :
          /\ transcribed' = ListenReturn(outcome)
          /\ IF TruthyTranscript(transcribed')
             THEN process_question(transcribed'.text)
             ELSE /\ ui_state' = AfterNoTranscript
                  /\ UNCHANGED question
                  /\ UNCHANGED frame_vars
    /\ UNCHANGED <<selected_language, pdf_text, answer_data>>

\* The recording branch: listen_and_transcribe raises something it does
\* not catch (no microphone, a failing whisper); the run ends there.
RecordRaise ==
    /\ pc = "none"
    /\ Truthy(pdf_text)
    /\ ui_state = "recording"
    /\ stt_calls < MaxListens
    /\ stt_calls' = stt_calls + 1
    /\ transcribed' = [type |-> "exception"]
    /\ UNCHANGED <<selected_language, pdf_text, ui_state, question, answer_data>>
    /\ UNCHANGED frame_vars

\* process_question after get_answer has returned, then st.rerun().
ProcessQuestionReturn ==
    /\ pc = "returned"
    /\ answer_data' = ret
    /\ ui_state' = "done"
    /\ pc' = "none"
    /\ chunks' = <<>>
    /\ all_candidates' = <<>>
    /\ calls' = <<>>
    /\ ret' = PyNone
    /\ UNCHANGED <<selected_language, pdf_text, question, stt_calls, transcribed>>

\* get_answer raised: the exception ends the script run.
ScriptAbort ==
    /\ pc = "raised"
    /\ pc' = "none"
    /\ chunks' = <<>>
    /\ all_candidates' = <<>>
    /\ calls' = <<>>
    /\ ret' = PyNone
    /\ UNCHANGED outer_vars

\* "Ask Another Question"
AskAnother ==
    /\ pc = "none"
    /\ Truthy(pdf_text)
    /\ ui_state = "done"
    /\ question' = ""
    /\ answer_data' = PyNone
    /\ ui_state' = "idle"
    /\ UNCHANGED <<selected_language, pdf_text, stt_calls, transcribed>>
    /\ UNCHANGED frame_vars

Next ==
    \/ SidebarChange
    \/ SubmitText
    \/ StartRecording
    \/ Record
    \/ RecordRaise
    \/ Generate
    \/ GenerateRaise
    \/ ScoreChunk
    \/ ScoreChunkRaise
    \/ GetAnswerSelect
    \/ ProcessQuestionReturn
    \/ ScriptAbort
    \/ AskAnother

Spec == Init /\ [][Next]_vars

-----------------------------------------------------------------------------
(* Properties of get_answer *)

CeilDiv(a, b) == (a + b - 1) \div b

ExtractivePath == ~IsGenerativePath(model_components)
Called == pc # "call" /\ pc # "none"
Returned == pc = "returned"
ValidDocument == IsStr(pdf_text) /\ Truthy(pdf_text)

\* <<i, j>>: the j-th candidate returned by the i-th scorer call, non-empty answer
Hits ==
    {ij \in (1..Len(calls)) \X (1..top_k) :
        /\ ij[2] <= Len(calls[ij[1]].results)
        /\ calls[ij[1]].results[ij[2]].answer # ""}

HitScore(ij) == calls[ij[1]].results[ij[2]].score
HitAnswer(ij) == calls[ij[1]].results[ij[2]].answer
HitWindow(ij) == calls[ij[1]].context

TopHits == {ij \in Hits : \A other \in Hits : HitScore(other) <= HitScore(ij)}

ScanBefore(x, y) == x[1] < y[1] \/ (x[1] = y[1] /\ x[2] <= y[2])

\* C1 as stated: a document text of length L >= 1 gives
\* ceil((L - O) / (W - O)) windows when L > O, and 1 window when L <= O.
C1_CountAsStated ==
    (Called /\ ExtractivePath /\ ValidDocument) =>
        Len(chunks) = IF pdf_text.len > overlap
                      THEN CeilDiv(pdf_text.len - overlap, max_chunk_len - overlap)
                      ELSE 1

\* C1 amended: a document text of length L >= 1 gives exactly
\* ceil(L / (W - O)) windows: one per start offset 0, W-O, 2(W-O), ... below L.
C1_WindowCount ==
    (Called /\ ExtractivePath /\ ValidDocument) =>
        Len(chunks) = CeilDiv(pdf_text.len, max_chunk_len - overlap)

C1_Witness ==
    /\ pc = "scoring"
    /\ pdf_text.type = "str"
    /\ pdf_text.len = max_chunk_len - overlap + 1
    /\ Len(chunks) = 2

\* C2: for a non-empty document text of length L, window k starts at
\* k*(W-O) and has at most W characters, no window is empty, and every
\* position of [0, L) lies in some window.
C2_WindowsCover ==
    (Called /\ ExtractivePath /\ ValidDocument) =>
        /\ \A k \in 1..Len(chunks) :
              /\ chunks[k].src = pdf_text.src
              /\ chunks[k].off = (k - 1) * (max_chunk_len - overlap)
              /\ chunks[k].len >= 1
              /\ chunks[k].len <= max_chunk_len
              /\ chunks[k].off + chunks[k].len <= pdf_text.len
        /\ \A p \in 0..(pdf_text.len - 1) :
              \E k \in 1..Len(chunks) :
                  chunks[k].off <= p /\ p < chunks[k].off + chunks[k].len

C2_Witness ==
    /\ pc = "scoring"
    /\ pdf_text.type = "str"
    /\ pdf_text.len = MaxLen
    /\ Len(chunks) >= 3
    /\ chunks[Len(chunks)].len < max_chunk_len - overlap

\* C3 as stated: for every document text that is empty, None or not a
\* string, get_answer returns score 0, the empty-document answer and
\* context "N/A", without invoking the scorer.
C3_EmptyAsStated ==
    (Returned /\ ~ValidDocument) => (ret = EmptyDocResult /\ calls = <<>>)

\* C3 amended: on the extractive path, for every document text that is
\* empty, None or not a string, get_answer returns at once with score 0,
\* the empty-document answer and context "N/A", and the scorer is never
\* invoked.
C3_EmptyDocument ==
    (Called /\ ExtractivePath /\ ~ValidDocument) =>
        /\ Returned
        /\ ret.score = 0
        /\ ret.answer = AnswerEmptyDoc
        /\ ret.context = NA
        /\ calls = <<>>

C3_Witness ==
    /\ Returned
    /\ ExtractivePath
    /\ pdf_text = PyList(2)
    /\ ret = EmptyDocResult

\* C4: when some candidate with a non-empty answer was collected, the
\* returned score is the maximum score of those candidates, and the returned
\* answer and context are those of one such candidate and of the window
\* given to the scorer call that returned it.
C4_BestCandidate ==
    (Returned /\ Hits # {}) =>
        /\ \A ij \in Hits : HitScore(ij) <= ret.score
        /\ \E ij \in Hits :
              /\ ret.score = HitScore(ij)
              /\ ret.answer = HitAnswer(ij)
              /\ ret.context = HitWindow(ij)

C4_Witness ==
    /\ Returned
    /\ Len(calls) = 3
    /\ \A i \in 1..3 : calls[i].ok /\ Len(calls[i].results) = 1
    /\ calls[1].results[1] = [answer |-> "a", score |-> 1]
    /\ calls[2].results[1] = [answer |-> "b", score |-> MaxScore]
    /\ calls[3].results[1] = [answer |-> "a", score |-> 1]
    /\ ret = Result("b", MaxScore, chunks[2])

\* C5: when a scorer call raises, the scorer is still invoked on every
\* window in order, no exception escapes get_answer, and the result is the
\* not-found sentinel or a candidate of a window whose call succeeded.
C5_FailureIsolated ==
    (\E i \in 1..Len(calls) : ~calls[i].ok) =>
        /\ pc # "raised"
        /\ Len(calls) <= Len(chunks)
        /\ \A i \in 1..Len(calls) : calls[i].context = chunks[i]
        /\ Returned =>
              /\ Len(calls) = Len(chunks)
              /\ \/ ret = NotFoundResult
                 \/ \E ij \in Hits :
                       /\ calls[ij[1]].ok
                       /\ ret = Result(HitAnswer(ij), HitScore(ij), HitWindow(ij))

C5_Witness ==
    /\ Returned
    /\ Len(calls) = 3
    /\ calls[1].ok /\ ~calls[2].ok /\ calls[3].ok
    /\ <<1, 1>> \in Hits
    /\ <<3, 1>> \in Hits
    /\ ret.context = chunks[3]

\* C6: a candidate with an empty answer is never the result, even when its
\* score is the maximum of all collected candidates.
C6_NoEmptyAnswer ==
    (Returned /\ calls # <<>>) =>
        /\ ret.answer # ""
        /\ ret = NotFoundResult \/ \E ij \in Hits : ret.answer = HitAnswer(ij)

C6_Witness ==
    /\ Returned
    /\ Len(calls) = 2
    /\ calls[1].results = <<[answer |-> "", score |-> MaxScore]>>
    /\ calls[2].results = <<[answer |-> "a", score |-> 1]>>
    /\ ret = Result("a", 1, chunks[2])

\* C7: for a non-empty document whose windows give no candidate with a
\* non-empty answer (no candidates, empty answers only, or failed calls),
\* get_answer returns the not-found sentinel: score 0, context "N/A".
C7_NotFoundSentinel ==
    (Called /\ ExtractivePath /\ ValidDocument) =>
        /\ pc # "raised"
        /\ (Returned /\ Hits = {}) =>
              /\ ret.answer = AnswerNotFound
              /\ ret.score = 0
              /\ ret.context = NA

C7_Witness ==
    /\ Returned
    /\ Len(calls) = 3
    /\ ~calls[1].ok
    /\ calls[2].ok /\ calls[2].results = <<>>
    /\ calls[3].ok /\ calls[3].results = <<[answer |-> "", score |-> MaxScore]>>
    /\ ret = NotFoundResult

\* C8: among the candidates with a non-empty answer that share the maximum
\* score, the result is the first in scan order: earliest window, then
\* earliest position in the list the scorer returned.
C8_FirstOfTies ==
    (Returned /\ Hits # {}) =>
        \E first \in TopHits :
            /\ \A other \in TopHits : ScanBefore(first, other)
            /\ ret = Result(HitAnswer(first), HitScore(first), HitWindow(first))

C8_Witness ==
    /\ Returned
    /\ Len(calls) = 2
    /\ calls[1].results = <<[answer |-> "a", score |-> 1],
                            [answer |-> "b", score |-> MaxScore]>>
    /\ calls[2].results = <<[answer |-> "a", score |-> MaxScore]>>
    /\ ret = Result("b", MaxScore, chunks[1])

-----------------------------------------------------------------------------
(* Properties of the front-end *)

NoText == {PyNone, Transcript("")}

C10_DoneIffAnswer ==
    /\ ui_state \in {"idle", "recording", "done"}
    /\ ui_state = "done" <=> answer_data # PyNone

C10_Witness ==
    /\ ui_state = "done"
    /\ stt_calls = 1
    /\ answer_data = NotFoundResult

====
